---- MODULE Spec2Model ----
(***************************************************************************)
(* Model of webserver/feed_server.py: the redirect store (the sqlite       *)
(* tables "sound" and "article" and the functions that read and write      *)
(* them) as run by concurrent web workers, and the show resolver           *)
(* find_show.                                                              *)
(***************************************************************************)
EXTENDS Integers, Sequences, FiniteSets, Bags, TLC

(***************************************************************************)
(* Bounds of the model.                                                    *)
(***************************************************************************)
\* number of concurrent workers (threads/processes serving requests)
NProcs == 2
\* size of the space shortuuid.uuid() draws from
NCodes == 2
\* show ids of the catalog are drawn from 0..MaxShowId
MaxShowId == 1
\* the show names given to /api/slug/<show_name> have 1..MaxSlugLen characters
MaxSlugLen == 3

\* the original URLs that requests name; properties of the store relate
\* one original or two distinct ones
Originals == {"http://x/1.mp3", "http://x/2.mp3"}
Codes == 1..NCodes
Kinds == {"sound", "article"}

\* cursor.fetchone() on an empty result: None, no original and no proxy
NoOriginal == ""
NoProxy == 0

VARIABLES
    schema,     \* the set of tables that exist in REDIRECT_DB_FILE
    tables,     \* tables[k]: the committed rows [original, proxy] of table k
    workers,    \* the bag of the NProcs workers' local states (workers are
                \* interchangeable, so only how many are in each state matters)
    shows,      \* gen.show_source.shows, the catalog: the show ids it holds
    show_names, \* the name index behind gen.get_show_id_by_name: name -> show id
    SHOW_CUSTOM_URL, \* settings.SHOW_CUSTOM_URL in iteration order: <<alias, show id>>
    request,    \* the arguments of the outermost find_show call
    call,       \* the arguments of the find_show call that is running
    fs_pc,      \* "idle", "running" or "done": the state of the resolver
    outcome,    \* what the outermost find_show call returned or raised
    titles,     \* show.title of every show of the catalog
    route,      \* the HTTP request being served: the view function and its arguments
    response    \* the HTTP response to it

storeVars == <<schema, tables, workers>>

httpVars == <<titles, route, response>>

resolverVars == <<shows, show_names, SHOW_CUSTOM_URL, request, call, fs_pc, outcome,
                  titles, route, response>>

vars == <<schema, tables, workers, shows, show_names, SHOW_CUSTOM_URL,
          request, call, fs_pc, outcome, titles, route, response>>

(***************************************************************************)
(* A worker's local state: pc is where it is, kind the table its current   *)
(* call works on, original and proxy the call's argument and result: a     *)
(* get_redirect call is given original and returns proxy, a get_original   *)
(* call is given proxy and returns original.                               *)
(*   "new"       before init_db (before the worker's first request)        *)
(*   "idle"      after init_db, no request served yet                      *)
(*   "select"    get_redirect_article called itself again: before SELECT   *)
(*   "insert"    get_redirect: the SELECT found no row, before INSERT      *)
(*   "returned"  get_redirect returned the code in proxy                   *)
(*   "raised"    get_redirect ended with sqlite3.IntegrityError            *)
(*   "resolved"  get_original returned the URL in original                 *)
(*   "abort404"  get_original ended with abort(404)                        *)
(***************************************************************************)
W(pcv, k, o, c) == [pc |-> pcv, kind |-> k, original |-> o, proxy |-> c]

New == W("new", "none", NoOriginal, NoProxy)

Idle == W("idle", "none", NoOriginal, NoProxy)

\* the worker has no call in progress and can take a request
Ready(w) == w.pc \in {"idle", "returned", "raised", "resolved", "abort404"}

\* one worker goes from local state w to local state w2
Step(w, w2) == workers' = (workers (-) SetToBag({w})) (+) SetToBag({w2})

(***************************************************************************)
(* The SQL statements.                                                     *)
(***************************************************************************)
Row(o, c) == [original |-> o, proxy |-> c]

\* mutant: CREATE TABLE without IF NOT EXISTS after a DROP: the rows are lost
CreateTableDropExisting(exists, rows) == {}

\* CREATE TABLE IF NOT EXISTS t (original text primary key, proxy text unique)
CreateTableIfNotExists(exists, rows) == IF exists THEN rows ELSE {}

\* SELECT proxy FROM t WHERE original=? ; fetchone()
SelectProxy(rows, o) ==
    LET hit == {r \in rows : r.original = o}
    IN  IF hit = {} THEN NoProxy ELSE (CHOOSE r \in hit : TRUE).proxy

\* SELECT original FROM t WHERE proxy=? ; fetchone()
SelectOriginal(rows, c) ==
    LET hit == {r \in rows : r.proxy = c}
    IN  IF hit = {} THEN NoOriginal ELSE (CHOOSE r \in hit : TRUE).original

\* the constraints of the schema: original is the primary key, proxy is unique;
\* an INSERT that breaks one raises sqlite3.IntegrityError
\* mutant: the column original is no primary key
PrimaryKeyDropped(rows, o) == TRUE

PrimaryKeyOk(rows, o) == \A r \in rows : r.original # o

\* mutant: the column proxy is not unique
UniqueProxyDropped(rows, c) == TRUE

UniqueProxyOk(rows, c) == \A r \in rows : r.proxy # c

IntegrityOk(rows, o, c) == PrimaryKeyOk(rows, o) /\ UniqueProxyOk(rows, c)

\* mutant: the INSERT is never committed
InsertRowNotCommitted(rows, o, c) == rows

\* INSERT INTO t (original, proxy) VALUES (?, ?), committed when the with block exits
InsertRow(rows, o, c) == rows \cup {Row(o, c)}

(***************************************************************************)
(* Initial state: a fresh database file, no worker has served a request.   *)
(***************************************************************************)
InitStore ==
    /\ schema = {}
    /\ tables = [k \in Kinds |-> {}]
    /\ workers = [w \in {New} |-> NProcs]

(***************************************************************************)
(* init_db: runs in each worker before its first request.                  *)
(***************************************************************************)
init_db ==
    \E w \in BagToSet(workers) :
        /\ w.pc = "new"
        /\ schema' = Kinds
        /\ tables' = [k \in Kinds |-> CreateTableIfNotExists(k \in schema, tables[k])]
        /\ Step(w, Idle)
        /\ UNCHANGED resolverVars

(***************************************************************************)
(* get_original_sound / get_original_article: one SELECT, abort(404) when  *)
(* no row has the proxy code.                                              *)
(***************************************************************************)
\* mutant: the SELECT reads the other table
GetOriginalOtherTable(w, k, c) ==
    /\ Ready(w)
    /\ LET row == SelectOriginal(tables[CHOOSE j \in Kinds : j # k], c)
       IN  Step(w, W(IF row = NoOriginal THEN "abort404" ELSE "resolved", k, row, c))
    /\ UNCHANGED <<schema, tables, resolverVars>>

GetOriginal(w, k, c) ==
    /\ Ready(w)
    /\ LET row == SelectOriginal(tables[k], c)
       IN  Step(w, W(IF row = NoOriginal THEN "abort404" ELSE "resolved", k, row, c))
    /\ UNCHANGED <<schema, tables, resolverVars>>

get_original_sound ==
    \E w \in BagToSet(workers), c \in Codes : GetOriginal(w, "sound", c)

get_original_article ==
    \E w \in BagToSet(workers), c \in Codes : GetOriginal(w, "article", c)

(***************************************************************************)
(* get_redirect_sound / get_redirect_article, in the steps at which other  *)
(* workers can interleave: the SELECT, then the INSERT (with the commit of *)
(* the with block). The SELECT runs outside a transaction and reads the    *)
(* committed rows; the INSERT takes sqlite's write lock, is checked        *)
(* against the committed rows and is committed before any other writer     *)
(* can act, so INSERT and commit are one step. A writer that waits for     *)
(* the lock longer than sqlite's busy timeout is not modelled.             *)
(***************************************************************************)
\* the SELECT and fetchone(): return the stored proxy, or raise KeyError
\* and go on to the except branch
Select(w, k, o) ==
    /\ LET row == SelectProxy(tables[k], o)
       IN  IF row # NoProxy
           THEN Step(w, W("returned", k, o, row))
           ELSE Step(w, W("insert", k, o, NoProxy))
    /\ UNCHANGED <<schema, tables, resolverVars>>

\* mutant: the INSERT names the other kind's table
InsertOkOtherTable(w, new_uri) ==
    /\ IntegrityOk(tables[w.kind], w.original, new_uri)
    /\ tables' = [k \in Kinds |-> IF k = w.kind THEN tables[k]
                                  ELSE InsertRow(tables[k], w.original, new_uri)]
    /\ Step(w, W("returned", w.kind, w.original, new_uri))
    /\ UNCHANGED <<schema, resolverVars>>

\* the INSERT of a fresh shortuuid succeeds: the row is committed and the code returned
InsertOk(w, new_uri) ==
    /\ IntegrityOk(tables[w.kind], w.original, new_uri)
    /\ tables' = [tables EXCEPT ![w.kind] = InsertRow(tables[w.kind], w.original, new_uri)]
    /\ Step(w, W("returned", w.kind, w.original, new_uri))
    /\ UNCHANGED <<schema, resolverVars>>

\* the INSERT breaks a constraint: sqlite3.IntegrityError, nothing is written
InsertFails(w, new_uri, pcv) ==
    /\ ~IntegrityOk(tables[w.kind], w.original, new_uri)
    /\ Step(w, W(pcv, w.kind, w.original, NoProxy))
    /\ UNCHANGED <<schema, tables, resolverVars>>

\* a request calls get_redirect_sound(original_url, episode): the SELECT
get_redirect_sound_select ==
    \E w \in BagToSet(workers), o \in Originals :
        /\ Ready(w)
        /\ Select(w, "sound", o)

\* get_redirect_sound has no handler for sqlite3.IntegrityError: it reaches the caller
get_redirect_sound_insert ==
    \E w \in BagToSet(workers), new_uri \in Codes :
        /\ w.pc = "insert"
        /\ w.kind = "sound"
        /\ \/ InsertOk(w, new_uri)
           \/ InsertFails(w, new_uri, "raised")

\* a request calls get_redirect_article(original_url, episode): the SELECT
get_redirect_article_select ==
    \E w \in BagToSet(workers), o \in Originals :
        /\ Ready(w)
        /\ Select(w, "article", o)

\* get_redirect_article catches sqlite3.IntegrityError and calls itself again
get_redirect_article_insert ==
    \E w \in BagToSet(workers), new_uri \in Codes :
        /\ w.pc = "insert"
        /\ w.kind = "article"
        /\ \/ InsertOk(w, new_uri)
           \/ InsertFails(w, new_uri, "select")

\* the SELECT of the call get_redirect_article made to itself
get_redirect_article_retry ==
    \E w \in BagToSet(workers) :
        /\ w.pc = "select"
        /\ Select(w, "article", w.original)

(***************************************************************************)
(* Strings are sequences of characters, so that strip(), lower() and int() *)
(* are computed.                                                           *)
(***************************************************************************)
UpperChars == {"A"}
Digits == {"0", "1"}

LowerChar(c) == IF c = "A" THEN "a" ELSE c

DigitValue(c) == IF c = "1" THEN 1 ELSE 0

\* str.lower()
Lower(s) == [i \in 1..Len(s) |-> LowerChar(s[i])]

\* str.strip(): leading and trailing whitespace removed
Strip(s) ==
    LET keep == {i \in 1..Len(s) : s[i] # " "}
    IN  IF keep = {} THEN <<>>
        ELSE SubSeq(s, CHOOSE i \in keep : \A j \in keep : i <= j,
                       CHOOSE i \in keep : \A j \in keep : i >= j)

RECURSIVE Decimal(_)
Decimal(s) == IF s = <<>> THEN 0 ELSE 10 * Decimal(SubSeq(s, 1, Len(s) - 1)) + DigitValue(s[Len(s)])

\* show_id = None
NoneId == -1

\* int(s) of a string: surrounding whitespace is ignored, the rest must be
\* digits; ValueError (here NoneId) otherwise
ParseInt(s) ==
    LET t == Strip(s)
    IN  IF t # <<>> /\ \A i \in 1..Len(t) : t[i] \in Digits THEN Decimal(t) ELSE NoneId

\* the show argument of find_show: a string (a path segment of the URL) or an
\* integer (the show id find_show passes to itself)
StrArg(s) == [isInt |-> FALSE, str |-> s, num |-> 0]

IntArg(n) == [isInt |-> TRUE, str |-> <<>>, num |-> n]

\* the tokens requests carry: a name, an alias in two spellings, integers
\* (in the catalog or not, 0, with whitespace); the names the catalog may
\* index; the keys SHOW_CUSTOM_URL may have
Tokens == {<<"A">>, <<"a">>, <<" ", "a">>, <<"1">>, <<"0">>, <<" ", "1">>, <<"1", "1">>}

NameTokens == {<<"A">>, <<"1">>, <<"0">>}

AliasKeys == {<<"a">>, <<"A">>}

ShowIds == 0..MaxShowId

\* a dict: every sequence of entries with distinct keys
AliasMaps ==
    UNION {{m \in [1..n -> AliasKeys \X ShowIds] :
              \A i, j \in 1..n : i # j => m[i][1] # m[j][1]} :
           n \in 0..Cardinality(AliasKeys)}

MAX_RECURSION_DEPTH == 20

\* find_show is called with recursion_depth 0 by every route; the parameter
\* admits any value
StartDepths == {0, MAX_RECURSION_DEPTH - 1, MAX_RECURSION_DEPTH}

NoRequest == [token |-> <<>>, strict |-> TRUE, recursion_depth |-> 0]

NoCall == [show |-> StrArg(<<>>), strict |-> TRUE, recursion_depth |-> 0]

Outcome(k, id) == [kind |-> k, show_id |-> id]

NoOutcome == Outcome("none", NoneId)

InitResolverIdle ==
    /\ request = NoRequest
    /\ call = NoCall
    /\ fs_pc = "idle"
    /\ outcome = NoOutcome

\* no HTTP request is being served
NoRoute == [name |-> "none", show |-> <<>>, code |-> NoProxy, followed |-> FALSE]

\* no response yet: status 0
NoResponse == [status |-> 0, location |-> <<>>, url |-> NoOriginal, show_id |-> NoneId]

InitHttpIdle ==
    /\ route = NoRoute
    /\ response = NoResponse

(***************************************************************************)
(* find_show(gen, show, strict, recursion_depth)                           *)
(***************************************************************************)
\* "if not show_id": None and 0 are both false
Falsy(show_id) == show_id = NoneId \/ show_id = 0

\* mutant: int(show) is attempted in strict mode too
IntAttemptAlways(c) ==
    IF c.show.isInt THEN c.show.num ELSE ParseInt(c.show.str)

\* lines 20-26: show_id after the int() attempt
IntAttempt(c) ==
    IF c.strict THEN NoneId
    ELSE IF c.show.isInt THEN c.show.num ELSE ParseInt(c.show.str)

\* gen.show_source.shows[show_id]: the show, or KeyError when the catalog
\* has no such id
ShowsLookup(show_id) ==
    IF show_id \in shows THEN Outcome("Show", show_id) ELSE Outcome("KeyError", NoneId)

\* gen.get_show_id_by_name(show) finds the name
NameKnown(show) == ~show.isInt /\ show.str \in DOMAIN show_names

\* the entries of SHOW_CUSTOM_URL whose lower-cased key equals the stripped,
\* lower-cased show
AliasMatches(s) ==
    {i \in 1..Len(SHOW_CUSTOM_URL) : Lower(SHOW_CUSTOM_URL[i][1]) = Lower(Strip(s))}

\* the first of them in iteration order: the one the for loop returns from
FirstAlias(s) == CHOOSE i \in AliasMatches(s) : \A j \in AliasMatches(s) : i <= j

\* mutant: the alias itself, not the show id it maps to, is resolved again
AliasCallByKey(c, i) ==
    [show |-> StrArg(SHOW_CUSTOM_URL[i][1]), strict |-> FALSE,
     recursion_depth |-> c.recursion_depth + 1]

\* the arguments of the call find_show makes to itself for alias entry i
AliasCall(c, i) ==
    [show |-> IntArg(SHOW_CUSTOM_URL[i][2]), strict |-> FALSE,
     recursion_depth |-> c.recursion_depth + 1]

Return(o) ==
    /\ outcome' = o
    /\ fs_pc' = "done"
    /\ UNCHANGED <<call, request, shows, show_names, SHOW_CUSTOM_URL, storeVars, httpVars>>

\* a route calls find_show
find_show_call ==
    /\ fs_pc = "idle"
    /\ \E t \in Tokens, strict \in BOOLEAN, d \in StartDepths :
         /\ request' = [token |-> t, strict |-> strict, recursion_depth |-> d]
         /\ call' = [show |-> StrArg(t), strict |-> strict, recursion_depth |-> d]
    /\ fs_pc' = "running"
    /\ outcome' = NoOutcome
    /\ UNCHANGED <<shows, show_names, SHOW_CUSTOM_URL, storeVars, httpVars>>

\* lines 18-19: raise RuntimeError
find_show_recursion_limit ==
    /\ fs_pc = "running"
    /\ call.recursion_depth >= MAX_RECURSION_DEPTH
    /\ Return(Outcome("RuntimeError", NoneId))

\* lines 21-27, 41: show is taken as a show id
find_show_by_id ==
    /\ fs_pc = "running"
    /\ call.recursion_depth < MAX_RECURSION_DEPTH
    /\ ~Falsy(IntAttempt(call))
    /\ Return(ShowsLookup(IntAttempt(call)))

\* lines 27-30, 41: show is taken as a show name, and the index has it
find_show_by_name ==
    /\ fs_pc = "running"
    /\ call.recursion_depth < MAX_RECURSION_DEPTH
    /\ Falsy(IntAttempt(call))
    /\ NameKnown(call.show)
    /\ Return(ShowsLookup(show_names[call.show.str]))

\* lines 31-34 with an integer show (the id 0 of an alias entry): no name is
\* an integer, and show.strip() raises AttributeError
find_show_strip_int ==
    /\ fs_pc = "running"
    /\ call.recursion_depth < MAX_RECURSION_DEPTH
    /\ Falsy(IntAttempt(call))
    /\ call.show.isInt
    /\ Return(Outcome("AttributeError", NoneId))

\* lines 31-38: the name is unknown, an alias matches: return find_show(gen, show_id, False, depth + 1)
find_show_alias ==
    /\ fs_pc = "running"
    /\ call.recursion_depth < MAX_RECURSION_DEPTH
    /\ Falsy(IntAttempt(call))
    /\ ~call.show.isInt
    /\ ~NameKnown(call.show)
    /\ AliasMatches(call.show.str) # {}
    /\ call' = AliasCall(call, FirstAlias(call.show.str))
    /\ UNCHANGED <<request, fs_pc, outcome, shows, show_names, SHOW_CUSTOM_URL, storeVars,
                   httpVars>>

\* lines 39-40: the name is unknown and no alias matches: raise NoSuchShowError
find_show_no_such_show ==
    /\ fs_pc = "running"
    /\ call.recursion_depth < MAX_RECURSION_DEPTH
    /\ Falsy(IntAttempt(call))
    /\ ~call.show.isInt
    /\ ~NameKnown(call.show)
    /\ AliasMatches(call.show.str) = {}
    /\ Return(Outcome("NoSuchShowError", NoneId))

(***************************************************************************)
(* get_readable_slug_from(show_name):                                      *)
(*   remove_non_word.sub("", show_name.lower())                            *)
(* with remove_non_word = re.compile(r"[^\w\d]|_")                         *)
(***************************************************************************)
LowerChars == {"a"}

\* the characters \w matches: letters, digits and the underscore
WordChars == UpperChars \cup LowerChars \cup Digits \cup {"_"}

\* mutant: the pattern without its second alternative: underscores stay
RemoveNonWordOnly(c) == c \notin WordChars /\ c \notin Digits

\* the pattern [^\w\d]|_ matches the character c
remove_non_word(c) == (c \notin WordChars /\ c \notin Digits) \/ c = "_"

\* the characters sub("", ...) leaves in place
Kept(c) == ~remove_non_word(c)

get_readable_slug_from(show_name) == SelectSeq(Lower(show_name), Kept)

\* get_feed_slug(show) of the catalog's show with that id
get_feed_slug(show_id) == get_readable_slug_from(titles[show_id])

(***************************************************************************)
(* The view functions. A view that takes a show calls find_show, whose     *)
(* steps are the actions above, and then answers from what find_show       *)
(* returned or raised. Requests are served one after the other here; the   *)
(* concurrent use of the store is the subject of Spec.                     *)
(***************************************************************************)
Route(n, show, c, followed) == [name |-> n, show |-> show, code |-> c, followed |-> followed]

\* abort(code), and the 500 flask answers an unhandled exception with
Status(code) == [NoResponse EXCEPT !.status = code]

\* redirect(url_for_feed(show)): 302 to the path /<slug>
RedirectToFeed(show_id) ==
    [NoResponse EXCEPT !.status = 302, !.location = get_feed_slug(show_id)]

\* redirect(original): 302 to the stored URL
RedirectTo(original) == [NoResponse EXCEPT !.status = 302, !.url = original]

\* make_response(feed) of gen.generate_feed(show.show_id)
Feed(show_id) == [NoResponse EXCEPT !.status = 200, !.show_id = show_id]

\* the body url_for_feed(show)
FeedUrl(show_id) ==
    [NoResponse EXCEPT !.status = 200, !.location = get_feed_slug(show_id)]

\* the last request has been answered (or none was made): the next can arrive
Answered == route.name = "none" \/ response.status # 0

\* the view n starts for the path arguments show and c and calls
\* find_show(gen, show, strict)
Serve(n, show, c, followed, strict) ==
    /\ Answered
    /\ route' = Route(n, show, c, followed)
    /\ response' = NoResponse
    /\ request' = [token |-> show, strict |-> strict, recursion_depth |-> 0]
    /\ call' = [show |-> StrArg(show), strict |-> strict, recursion_depth |-> 0]
    /\ fs_pc' = "running"
    /\ outcome' = NoOutcome
    /\ UNCHANGED <<shows, show_names, SHOW_CUSTOM_URL, titles, storeVars>>

\* find_show is over and the view answers with r
Respond(r) ==
    /\ fs_pc = "done"
    /\ response.status = 0
    /\ response' = r
    /\ UNCHANGED <<shows, show_names, SHOW_CUSTOM_URL, titles, route, request, call,
                   fs_pc, outcome, storeVars>>

\* "except ValueError" of redirect_episode and redirect_article: the class
\* NoSuchShowError is defined outside this file; it is taken to be caught
\* here, as the documented answer to an unknown show on these routes is 404
ExceptValueError(o) == o.kind \in {"ValueError", "NoSuchShowError"}

\* GET /<show_name>, line 69: find_show(gen, show_name), strict
output_feed_find_show ==
    \E t \in Tokens : Serve("output_feed", t, NoProxy, FALSE, TRUE)

\* the client follows the redirect of output_feed: GET /<slug>
output_feed_follow_redirect ==
    /\ route.name = "output_feed"
    /\ response.status = 302
    /\ Serve("output_feed", response.location, NoProxy, TRUE, TRUE)

\* output_feed, lines 70-87
output_feed ==
    /\ route.name = "output_feed"
    /\ Respond(IF outcome.kind = "NoSuchShowError" THEN Status(404)
               ELSE IF outcome.kind # "Show" THEN Status(500)
               ELSE IF ~(route.show = get_feed_slug(outcome.show_id))
                    THEN RedirectToFeed(outcome.show_id)
               ELSE Feed(outcome.show_id))

\* GET /api/url/<show>, line 94: find_show(PodcastFeedGenerator(quiet=True), show, False)
api_url_show_find_show ==
    \E t \in Tokens : Serve("api_url_show", t, NoProxy, FALSE, FALSE)

\* api_url_show, lines 93-96
api_url_show ==
    /\ route.name = "api_url_show"
    /\ Respond(IF outcome.kind = "NoSuchShowError" THEN Status(404)
               ELSE IF outcome.kind # "Show" THEN Status(500)
               ELSE FeedUrl(outcome.show_id))

\* redirect(get_original_k(show, code)) inside try ... except ValueError: abort(404)
RedirectOriginal(k) ==
    Respond(IF ExceptValueError(outcome) THEN Status(404)
            ELSE IF outcome.kind # "Show" THEN Status(500)
            ELSE IF SelectOriginal(tables[k], route.code) = NoOriginal THEN Status(404)
            ELSE RedirectTo(SelectOriginal(tables[k], route.code)))

\* GET /episode/<show>/<episode>, line 128: find_show(..., show), strict
redirect_episode_find_show ==
    \E t \in Tokens, c \in Codes : Serve("redirect_episode", t, c, FALSE, TRUE)

\* redirect_episode, lines 127-130, with get_original_sound
redirect_episode ==
    /\ route.name = "redirect_episode"
    /\ RedirectOriginal("sound")

\* GET /artikkel/<show>/<article>, line 136: find_show(..., show), strict
redirect_article_find_show ==
    \E t \in Tokens, c \in Codes : Serve("redirect_article", t, c, FALSE, TRUE)

\* redirect_article, lines 135-138, with get_original_article
redirect_article ==
    /\ route.name = "redirect_article"
    /\ RedirectOriginal("article")

\* the characters of the show names given to /api/slug/<show_name>: upper
\* and lower case letters, digits, the underscore, the space, punctuation
SlugAlphabet == UpperChars \cup LowerChars \cup Digits \cup {"_", " ", "!"}

\* a path segment is not empty
SlugInputs == UNION {[1..n -> SlugAlphabet] : n \in 1..MaxSlugLen}

\* the body url_for('output_feed', show_name=get_readable_slug_from(show_name))
SlugUrl(show_name) ==
    [NoResponse EXCEPT !.status = 200, !.location = get_readable_slug_from(show_name)]

\* GET /api/slug/<show_name>, lines 109-111
api_slug_name ==
    \E show_name \in SlugInputs :
        /\ route' = Route("api_slug_name", show_name, NoProxy, FALSE)
        /\ response' = SlugUrl(show_name)
        /\ UNCHANGED <<shows, show_names, SHOW_CUSTOM_URL, titles, request, call, fs_pc,
                       outcome, storeVars>>

\* GET /api/slug/<slug> with the slug the last answer predicted
api_slug_name_of_slug ==
    /\ route.name = "api_slug_name"
    /\ response.location # <<>>
    /\ route' = Route("api_slug_name", response.location, NoProxy, TRUE)
    /\ response' = SlugUrl(response.location)
    /\ UNCHANGED <<shows, show_names, SHOW_CUSTOM_URL, titles, request, call, fs_pc,
                   outcome, storeVars>>

(***************************************************************************)
(* The redirect store under concurrent workers.                            *)
(***************************************************************************)
Init ==
    /\ InitStore
    /\ shows = {}
    /\ show_names = <<>>
    /\ SHOW_CUSTOM_URL = <<>>
    /\ titles = <<>>
    /\ InitResolverIdle
    /\ InitHttpIdle

Next ==
    \/ init_db
    \/ get_original_sound
    \/ get_original_article
    \/ get_redirect_sound_select
    \/ get_redirect_sound_insert
    \/ get_redirect_article_select
    \/ get_redirect_article_insert
    \/ get_redirect_article_retry

Spec == Init /\ [][Next]_vars

(***************************************************************************)
(* Properties of the redirect store, checked under Spec.                   *)
(***************************************************************************)
RowsOf(k, o) == {r \in tables[k] : r.original = o}

\* the workers whose last or current call is get_redirect for (k, o)
Callers(k, o) ==
    {w \in BagToSet(workers) :
        /\ w.pc \in {"select", "insert", "returned", "raised"}
        /\ w.kind = k
        /\ w.original = o}

AtLeastTwo(ws) == Cardinality(ws) >= 2 \/ \E w \in ws : CopiesIn(w, workers) >= 2

\* C1: for each link kind, when two or more calls of get_redirect with the
\* same original have run concurrently and all are over, exactly one row
\* for that original is stored and every call has returned the same code.
C1_ConcurrentCallsConverge ==
    \A k \in Kinds, o \in Originals :
        (/\ AtLeastTwo(Callers(k, o))
         /\ \A w \in Callers(k, o) : w.pc \in {"returned", "raised"})
        => /\ Cardinality(RowsOf(k, o)) = 1
           /\ \A w \in Callers(k, o) : w.pc = "returned"
           /\ \A w1, w2 \in Callers(k, o) : w1.proxy = w2.proxy

\* C2: for each link kind, a uniqueness violation of the INSERT is never
\* surfaced to the caller: no call of get_redirect ends with
\* sqlite3.IntegrityError.
C2_ViolationNeverSurfaces ==
    \A w \in BagToSet(workers) : w.pc # "raised"

\* C3: round trip: once get_redirect(o) has returned code C, the table
\* answers C for o (what every later get_redirect(o) returns) and o for C
\* (what get_original(C) returns), and any two calls that returned for the
\* same original returned the same code.
C3_RoundTrip ==
    \A w \in BagToSet(workers) :
        w.pc = "returned" =>
            /\ SelectProxy(tables[w.kind], w.original) = w.proxy
            /\ SelectOriginal(tables[w.kind], w.proxy) = w.original
            /\ \A v \in BagToSet(workers) :
                 (v.pc = "returned" /\ v.kind = w.kind /\ v.original = w.original)
                 => v.proxy = w.proxy

\* two calls have returned the same code for the same original, and the row is stored
C3_Witness ==
    \E w \in BagToSet(workers) :
        /\ w.pc = "returned"
        /\ CopiesIn(w, workers) >= 2
        /\ Row(w.original, w.proxy) \in tables[w.kind]

\* C4: in each table, no two rows have the same original and no two rows
\* have the same proxy.
C4_RowsUnique ==
    \A k \in Kinds : \A r1, r2 \in tables[k] :
        (r1.original = r2.original \/ r1.proxy = r2.proxy) => r1 = r2

\* a table holds two rows, and an INSERT of a concurrent call was refused
C4_Witness ==
    /\ \E k \in Kinds : Cardinality(tables[k]) = 2
    /\ \E w \in BagToSet(workers) : w.pc = "raised"

\* C5: within one kind, the codes returned for two distinct originals differ.
C5_DistinctOriginalsDistinctCodes ==
    \A w1, w2 \in BagToSet(workers) :
        (/\ w1.pc = "returned" /\ w2.pc = "returned"
         /\ w1.kind = w2.kind
         /\ w1.original # w2.original)
        => w1.proxy # w2.proxy

\* two calls of one kind have returned codes for two distinct originals
C5_Witness ==
    \E w1, w2 \in BagToSet(workers) :
        /\ w1.pc = "returned" /\ w2.pc = "returned"
        /\ w1.kind = w2.kind
        /\ w1.original # w2.original

\* C6: rows are permanent and immutable: every step keeps every row of
\* both tables, and a step adds at most one row to a table, for an original
\* that had no row.
C6_RowsPermanent ==
    [][\A k \in Kinds :
          /\ tables[k] \subseteq tables'[k]
          /\ Cardinality(tables'[k] \ tables[k]) <= 1
          /\ \A r \in tables'[k] \ tables[k] : RowsOf(k, r.original) = {}]_vars

\* both tables hold rows, every worker has run init_db, a call of
\* get_redirect has returned and a call of get_original has found its row
C6_Witness ==
    /\ \A k \in Kinds : tables[k] # {}
    /\ ~BagIn(New, workers)
    /\ \E w \in BagToSet(workers) : w.pc = "returned"
    /\ \E w \in BagToSet(workers) : w.pc = "resolved"

\* C7: get_original for a code that no row of the table of that kind has
\* as proxy ends with abort(404); for a code that a row has as proxy it
\* returns that row's original; both tables are unchanged. (A step in which
\* a worker arrives at "resolved" or "abort404" is a get_original call.)
C7_GetOriginal ==
    [][\A v \in BagToSet(workers') :
          (/\ v.pc \in {"resolved", "abort404"}
           /\ CopiesIn(v, workers') > CopiesIn(v, workers))
          => /\ tables' = tables
             /\ v.pc = "abort404" <=> \A r \in tables[v.kind] : r.proxy # v.proxy
             /\ v.pc = "abort404" => v.original = NoOriginal
             /\ v.pc = "resolved" => Row(v.original, v.proxy) \in tables[v.kind]]_vars

\* one call of get_original has ended with abort(404) while the other kind's
\* table has the code, and one has returned the original of its code
C7_Witness ==
    /\ \E w \in BagToSet(workers) :
          /\ w.pc = "abort404"
          /\ \E k \in Kinds : \E r \in tables[k] : r.proxy = w.proxy
    /\ \E w \in BagToSet(workers) :
          /\ w.pc = "resolved"
          /\ Row(w.original, w.proxy) \in tables[w.kind]

(***************************************************************************)
(* The show resolver, over every catalog, name index and alias map of the  *)
(* bounds.                                                                 *)
(***************************************************************************)
InitResolver ==
    /\ InitStore
    /\ shows \in SUBSET ShowIds
    /\ show_names \in UNION {[D -> shows] : D \in SUBSET NameTokens}
    /\ SHOW_CUSTOM_URL \in AliasMaps
    /\ titles = <<>>
    /\ InitResolverIdle
    /\ InitHttpIdle

NextResolver ==
    \/ find_show_call
    \/ find_show_recursion_limit
    \/ find_show_by_id
    \/ find_show_by_name
    \/ find_show_strip_int
    \/ find_show_alias
    \/ find_show_no_such_show

SpecResolver == InitResolver /\ [][NextResolver]_vars

(***************************************************************************)
(* Properties of find_show, checked under SpecResolver.                    *)
(***************************************************************************)
\* the outermost call was find_show(gen, token, strict) with recursion_depth 0
TopLevel == fs_pc # "idle" /\ request.recursion_depth = 0

Finished == fs_pc = "done" /\ request.recursion_depth = 0

\* the token is a name of the catalog's name index
IsName(t) == t \in DOMAIN show_names

\* the token, stripped and lower-cased, equals the lower-cased key of entry i
KeyMatches(t, i) == Lower(SHOW_CUSTOM_URL[i][1]) = Lower(Strip(t))

\* non-strict mode takes the token for a show id: it parses as an integer other than 0
TakenAsId(t, strict) == ~strict /\ ParseInt(t) # NoneId /\ ParseInt(t) # 0

C9_OnlyNoSuchShowError ==
    (Finished /\ outcome.kind # "Show") => outcome.kind = "NoSuchShowError"

\* the alias map has a self-referential cycle at the token: the token is
\* resolved through an alias, and a name of the show the alias maps to
\* matches that alias again
CycleAt(t, strict) ==
    /\ ~IsName(t)
    /\ ~TakenAsId(t, strict)
    /\ \E i \in 1..Len(SHOW_CUSTOM_URL) :
          /\ KeyMatches(t, i)
          /\ \A j \in 1..(i - 1) : ~KeyMatches(t, j)
          /\ \E n \in DOMAIN show_names :
                show_names[n] = SHOW_CUSTOM_URL[i][2] /\ KeyMatches(n, i)

\* one step of the running find_show call
FindShowStep ==
    \/ find_show_recursion_limit
    \/ find_show_by_id
    \/ find_show_by_name
    \/ find_show_strip_int
    \/ find_show_alias
    \/ find_show_no_such_show

\* C10 as stated: with a self-referential cycle in the alias map, the call
\* ends with the recursion-limit error (RuntimeError).
C10_CycleEndsInRecursionLimit ==
    (Finished /\ CycleAt(request.token, request.strict)) => outcome.kind = "RuntimeError"

\* C10 amended: with a self-referential cycle in the alias map, a call from
\* depth 0 never goes deeper than one alias hop, is never stuck before it
\* ends, and does not end with the recursion-limit error.
C10_CycleEndsAfterOneHop ==
    (TopLevel /\ CycleAt(request.token, request.strict)) =>
        /\ call.recursion_depth <= 1
        /\ outcome.kind # "RuntimeError"
        /\ fs_pc = "running" => ENABLED FindShowStep

\* a call on a cyclic alias has ended, one hop deep, with the show
C10_Witness ==
    /\ Finished
    /\ CycleAt(request.token, request.strict)
    /\ call.recursion_depth = 1
    /\ outcome.kind = "Show"

\* C14: in non-strict mode a token that parses as an integer, 0 included,
\* is looked up in the catalog as a show id, with no alias hop, whatever
\* the name index and the alias map hold: the call yields the show with
\* that id when the catalog has it and no show otherwise; in strict mode the token is
\* never taken as a show id: a name yields what the name index maps it to,
\* and a token that is no name and matches no alias ends with
\* NoSuchShowError even when it parses as an integer.
C14_IntegerIsShowId ==
    Finished =>
        /\ (~request.strict /\ ParseInt(request.token) # NoneId)
              => /\ ParseInt(request.token) \in shows
                       => outcome = Outcome("Show", ParseInt(request.token))
                 /\ ParseInt(request.token) \notin shows => outcome.kind # "Show"
                 /\ call.recursion_depth = 0
        /\ (request.strict /\ IsName(request.token))
              => outcome = ShowsLookup(show_names[request.token])
        /\ (/\ request.strict
            /\ ~IsName(request.token)
            /\ \A i \in 1..Len(SHOW_CUSTOM_URL) : ~KeyMatches(request.token, i))
              => outcome.kind = "NoSuchShowError"

\* C17: for every catalog, name index and alias map, a call from recursion
\* depth 0 never runs deeper than depth 1; the call at depth 1 has an
\* integer show and strict = False and cannot take the alias branch again;
\* and the call never ends with the recursion-limit error.
C17_AtMostOneHop ==
    TopLevel =>
        /\ call.recursion_depth <= 1
        /\ call.recursion_depth = 1 => (call.show.isInt /\ ~call.strict)
        /\ (fs_pc = "running" /\ call.recursion_depth = 1) => ~ENABLED find_show_alias
        /\ outcome.kind # "RuntimeError"

\* find_show, called at depth 0, is running the call it made to itself for
\* an alias
C17_Witness ==
    /\ TopLevel
    /\ fs_pc = "running"
    /\ call.recursion_depth = 1

(***************************************************************************)
(* The HTTP surface, over every catalog and alias map of the bounds, with  *)
(* redirects stored in both tables.                                        *)
(***************************************************************************)
\* the titles the catalog's shows may have
Titles == {<<"A">>, <<"1">>, <<"A", " ", "1">>}

\* the name index of the catalog, gen.get_show_id_by_name: every show is
\* found by its title and by its canonical slug
NameIndex(t) ==
    [n \in {t[s] : s \in DOMAIN t} \cup {get_readable_slug_from(t[s]) : s \in DOMAIN t} |->
        CHOOSE s \in DOMAIN t : n \in {t[s], get_readable_slug_from(t[s])}]

\* the redirect tables after some feeds were generated
StoredTables ==
    [k \in Kinds |-> IF k = "sound" THEN {Row("http://x/1.mp3", 1)}
                     ELSE {Row("http://x/2.mp3", 1)}]

InitHttp ==
    /\ schema = Kinds
    /\ tables = StoredTables
    /\ workers = [w \in {Idle} |-> NProcs]
    /\ shows \in SUBSET ShowIds
    /\ titles \in {t \in [shows -> Titles] :
                     \A s1, s2 \in shows :
                        get_readable_slug_from(t[s1]) = get_readable_slug_from(t[s2]) => s1 = s2}
    /\ show_names = NameIndex(titles)
    /\ SHOW_CUSTOM_URL \in AliasMaps
    /\ InitResolverIdle
    /\ InitHttpIdle

\* the views call find_show with recursion_depth 0, from where the raise of
\* lines 18-19 is out of reach (C17): find_show_recursion_limit is no step here
NextHttp ==
    \/ output_feed_find_show
    \/ output_feed_follow_redirect
    \/ output_feed
    \/ api_url_show_find_show
    \/ api_url_show
    \/ redirect_episode_find_show
    \/ redirect_episode
    \/ redirect_article_find_show
    \/ redirect_article
    \/ find_show_by_id
    \/ find_show_by_name
    \/ find_show_strip_int
    \/ find_show_alias
    \/ find_show_no_such_show

SpecHttp == InitHttp /\ [][NextHttp]_vars

(***************************************************************************)
(* Properties of the HTTP surface, checked under SpecHttp.                 *)
(***************************************************************************)
\* the request for view function n has been answered
AnsweredBy(n) == route.name = n /\ response.status # 0

\* the token is the show id of catalog show s
IsIdOf(t, s) == s \in shows /\ ParseInt(t) = s

\* the token is a legacy alias of catalog show s: the first alias key it
\* matches maps to s
IsAliasOf(t, s) ==
    /\ s \in shows
    /\ \E i \in 1..Len(SHOW_CUSTOM_URL) :
          /\ KeyMatches(t, i)
          /\ \A j \in 1..(i - 1) : ~KeyMatches(t, j)
          /\ SHOW_CUSTOM_URL[i][2] = s

\* C11: a request GET /<token> whose token is a show id or a legacy alias
\* of an existing show (and no name of the catalog, so not the show's
\* canonical slug) is answered with a redirect to the show's canonical slug
\* path; the request the client then makes to that path is answered 200
\* with the feed of a show whose slug the path is, not with another redirect.
C11_NonCanonicalRedirects ==
    AnsweredBy("output_feed") =>
        /\ \A s \in shows :
              (/\ IsIdOf(route.show, s) \/ IsAliasOf(route.show, s)
               /\ ~IsName(route.show))
              => response = RedirectToFeed(s)
        /\ route.followed =>
              /\ response.status = 200
              /\ response.show_id \in shows
              /\ get_feed_slug(response.show_id) = route.show

\* the view functions that take a show token
ShowRoutes == {"output_feed", "api_url_show", "redirect_episode", "redirect_article"}

\* the table a redirect route reads
KindOf(n) == IF n = "redirect_episode" THEN "sound" ELSE "article"

\* the token resolves to no show: it is no name of the catalog, no id of a
\* catalog show and no alias of a catalog show
ResolvesToNoShow(t) ==
    /\ ~IsName(t)
    /\ ParseInt(t) \notin shows
    /\ \A s \in shows : ~IsAliasOf(t, s)

\* C12: on every route that takes a show token, a token that resolves to no
\* show is answered 404, never with a server error; on the episode and
\* article routes, a token that is a name or an alias of an existing show,
\* with a code that the route's table stores, is answered with a redirect to
\* the stored original URL.
C12_UnknownShowIs404 ==
    (route.name \in ShowRoutes /\ response.status # 0) =>
        /\ ResolvesToNoShow(route.show) => response.status = 404
        /\ \A r \in tables[KindOf(route.name)] :
              (/\ route.name \in {"redirect_episode", "redirect_article"}
               /\ IsName(route.show) \/ \E s \in shows : IsAliasOf(route.show, s)
               /\ r.proxy = route.code)
              => response = RedirectTo(r.original)

(***************************************************************************)
(* The slug normalizer, over every show name of the bounds.                *)
(***************************************************************************)
NextSlug ==
    \/ api_slug_name
    \/ api_slug_name_of_slug

SpecSlug == Init /\ [][NextSlug]_vars

\* the other case of a letter
SwapCase(c) == IF c = "A" THEN "a" ELSE IF c = "a" THEN "A" ELSE c

\* the strings that differ from t only in the case of letters
CaseVariants(t) ==
    {[i \in 1..Len(t) |-> IF i \in S THEN SwapCase(t[i]) ELSE t[i]] : S \in SUBSET (1..Len(t))}

\* the strings that are t without one underscore, space or punctuation character
Deletions(t) ==
    {SubSeq(t, 1, i - 1) \o SubSeq(t, i + 1, Len(t)) :
        i \in {j \in 1..Len(t) : t[j] \in {"_", " ", "!"}}}

\* C13: the slug of a slug is that slug; a slug holds only lower-case
\* letters and digits; show names that differ only in the case of letters,
\* or by a deleted underscore, space or punctuation character, have the
\* same slug.
C13_SlugIdempotent ==
    AnsweredBy("api_slug_name") =>
        /\ route.followed => response.location = route.show
        /\ get_readable_slug_from(response.location) = response.location
        /\ \A i \in 1..Len(response.location) : response.location[i] \in LowerChars \cup Digits
        /\ \A u \in CaseVariants(route.show) \cup Deletions(route.show) :
              get_readable_slug_from(u) = response.location

\* a show name with an upper-case letter, an underscore and punctuation has
\* been reduced to its letters in lower case
C13_Witness ==
    /\ AnsweredBy("api_slug_name")
    /\ route.show = <<"A", "_", "!">>
    /\ response.location = <<"a">>

(***************************************************************************)
(* The store and the resolver together: one worker serves requests that    *)
(* read and write the store, and find_show runs in between.                *)
(***************************************************************************)
InitFrame ==
    /\ schema = {}
    /\ tables = [k \in Kinds |-> {}]
    /\ workers = [w \in {New} |-> 1]
    /\ shows = {0, 1}
    /\ show_names = [n \in {<<"A">>} |-> 1]
    /\ SHOW_CUSTOM_URL \in {<<<<<<"a">>, 0>>>>, <<<<<<"a">>, 1>>>>}
    /\ titles = <<>>
    /\ InitResolverIdle
    /\ InitHttpIdle

NextFrame ==
    \/ init_db
    \/ get_original_sound
    \/ get_original_article
    \/ get_redirect_sound_select
    \/ get_redirect_sound_insert
    \/ get_redirect_article_select
    \/ get_redirect_article_insert
    \/ get_redirect_article_retry
    \/ find_show_call
    \/ find_show_recursion_limit
    \/ find_show_by_id
    \/ find_show_by_name
    \/ find_show_strip_int
    \/ find_show_alias
    \/ find_show_no_such_show

SpecFrame == InitFrame /\ [][NextFrame]_vars

\* a worker arrives in local state v in this step
Arrives(v) == CopiesIn(v, workers') > CopiesIn(v, workers)

\* a worker leaves local state w in this step
Leaves(w) == CopiesIn(w, workers') < CopiesIn(w, workers)

\* C15: a step that changes a table is the INSERT of a get_redirect call
\* for kind k and original o: it adds one row, whose original is o, to
\* table k, where o had no row, and leaves the other table alone; a call
\* whose SELECT finds a row for o returns without an INSERT; get_original,
\* init_db and find_show change no table.
C15_Frame ==
    [][/\ tables' # tables =>
             \E w \in BagToSet(workers), c \in Codes :
                /\ w.pc = "insert" /\ Leaves(w)
                /\ Arrives(W("returned", w.kind, w.original, c))
                /\ RowsOf(w.kind, w.original) = {}
                /\ tables'[w.kind] = tables[w.kind] \cup {Row(w.original, c)}
                /\ \A k \in Kinds \ {w.kind} : tables'[k] = tables[k]
       /\ \A v \in BagToSet(workers') :
             (Arrives(v) /\ v.pc = "insert") => RowsOf(v.kind, v.original) = {}
       /\ \A v \in BagToSet(workers') :
             (/\ Arrives(v) /\ v.pc = "returned"
              /\ RowsOf(v.kind, v.original) # {})
             => tables' = tables
       /\ \A v \in BagToSet(workers') :
             (Arrives(v) /\ v.pc \in {"idle", "resolved", "abort404", "raised", "select"})
             => tables' = tables
       /\ <<request, call, fs_pc, outcome>>' # <<request, call, fs_pc, outcome>>
             => tables' = tables]_vars

\* both tables hold rows, a get_original call has found its row, and
\* find_show has run through an alias hop to its end
C15_Witness ==
    /\ \A k \in Kinds : tables[k] # {}
    /\ \E w \in BagToSet(workers) : w.pc = "resolved"
    /\ fs_pc = "done"
    /\ call.recursion_depth = 1

(***************************************************************************)
(* The retry loop of get_redirect, checked under Spec.                     *)
(***************************************************************************)
\* C16, in the form a finite run decides: the only ways out of a call of
\* get_redirect are its return and, when the INSERT is refused, the read
\* step of a retry, so that under fair scheduling and a code generator
\* that eventually draws an unused code every call returns; and a retry
\* whose SELECT finds the row of the call that won the race returns that
\* row's code and attempts no INSERT.
C16_RefusedInsertRetries ==
    [][/\ \A w \in BagToSet(workers) :
             (w.pc = "insert" /\ Leaves(w))
             => \/ \E c \in Codes : Arrives(W("returned", w.kind, w.original, c))
                \/ Arrives(W("select", w.kind, w.original, NoProxy))
       /\ \A w \in BagToSet(workers) :
             (w.pc = "select" /\ Leaves(w) /\ RowsOf(w.kind, w.original) # {})
             => /\ Arrives(W("returned", w.kind, w.original,
                             SelectProxy(tables[w.kind], w.original)))
                /\ tables' = tables]_vars

====
